---- MODULE Spec2Model ----
(***************************************************************************)
(* Conversation orchestration of the prompt-expansion service:             *)
(*   - the request handlers start_conversation / send_message and the      *)
(*     background task analyze_initial_prompt (api_implementation.py),     *)
(*     interleaved at their await points over one conversation id;         *)
(*   - PromptAnalysisEngine.analyze_prompt and its derived operations      *)
(*     (prompt_analysis_engine.py).                                        *)
(* The conversation store (core.conversation_manager) and the              *)
(* specification store (core.db.repository) are not among the source       *)
(* files; their operations are modelled from the design document.          *)
(***************************************************************************)
EXTENDS Integers, Sequences, FiniteSets, TLC

\* ------------------------------------------------------------- bounds
\* Concurrent send_message handlers.
MaxReqs == 2
\* send_message and get_specification requests accepted over one run.
MaxMsgs == 2
\* Longest missing_info list an extraction returns.
MaxQuestions == 2
\* Largest retry budget the engine is constructed with.
MaxRetriesBound == 3
\* Longest user prompt, in characters.
MaxPromptLen == 2
\* Longest missing_info list handed to prioritize_missing_info on its own.
MaxMissingInfo == 3
\* Longest technical_terms list handed to get_technical_translations.
MaxTerms == 2
\* Most category keys in a requirements mapping.
MaxCategories == 3
\* Longest list of requirements under one category key.
MaxListLen == 1

\* ---------------------------------------------------- program constants
\* MissingInfo.priority: Field(..., ge=1, le=5).
MinPriority == 1
MaxPriority == 5
\* PromptAnalysisEngine.__init__(max_retries: int = 2).
DefaultMaxRetries == 2
\* Optional[str] spec_id = None.
NoSpecId == 0
\* get_technical_translations(min_confidence: float = 0.7), in tenths.
DefaultMinConfidence == 7

Reqs == 1..MaxReqs
\* The identity get_current_user yields for a request: test_user from the
\* placeholder, another one once tokens are validated.
Users == {"test_user", "other_user"}
Priorities == {MinPriority, MaxPriority}
Chars == {" ", "a"}

VARIABLES
    conv,         \* the stored ConversationState of the one conversation id
    specs,        \* the specification store: set of ProjectSpecification
    bg_pc,        \* analyze_initial_prompt: none, scheduled, analyzing, done, failed
    bg_copy,      \* the copy analyze_initial_prompt read
    pc,           \* send_message handler r: its next await point
    loc,          \* send_message handler r: its local `conversation`
    msg,          \* send_message handler r: request.message
    n_req,        \* requests received so far
    response,     \* the last response sent to a caller
    presented,    \* the questions responses have carried to the caller so far
    dirty,        \* handlers whose copy predates another operation's write
    bg_dirty,     \* the same for the background task
    e_pc,         \* analyze_prompt: call, loop, returned, raised, invalid_input
    user_prompt,  \* analyze_prompt's argument
    max_retries,  \* self.max_retries
    attempt,      \* the loop variable
    errors,       \* the local list `errors`
    result,       \* the local `result`
    calls,        \* analysis_chain.arun calls made
    repairs,      \* fixing_parser.parse calls made
    d_pc,         \* a method called on an AnalysisResult: call, or the
                  \* name of the method that has returned
    d_result,     \* its argument `result`, as it is now
    d_min_confidence,  \* its argument min_confidence, in tenths
    d_ret         \* what it returned

conv_vars == <<conv, specs, bg_pc, bg_copy, pc, loc, msg, n_req, response,
               presented, dirty, bg_dirty>>
derived_vars == <<d_pc, d_result, d_min_confidence, d_ret>>
engine_vars == <<e_pc, user_prompt, max_retries, attempt, errors, result,
                 calls, repairs, d_pc, d_result, d_min_confidence,
                 d_ret>>
vars == <<conv, specs, bg_pc, bg_copy, pc, loc, msg, n_req, response,
          presented, dirty, bg_dirty, e_pc, user_prompt, max_retries,
          attempt, errors, result, calls, repairs, d_pc, d_result,
          d_min_confidence, d_ret>>

\* ------------------------------------------------- prompt analysis engine

\* str.strip(): leading and trailing whitespace removed.
RECURSIVE lstrip(_)
lstrip(s) ==
    IF s = <<>> THEN <<>>
    ELSE IF Head(s) = " " THEN lstrip(Tail(s)) ELSE s

RECURSIVE rstrip(_)
rstrip(s) ==
    IF s = <<>> THEN <<>>
    ELSE IF s[Len(s)] = " " THEN rstrip(SubSeq(s, 1, Len(s) - 1)) ELSE s

C11_NoStrip(s) == s

strip(s) == rstrip(lstrip(s))

\* range(n)
range(n) == 0..(n - 1)

\* What one attempt's backend call and parsing can do:
\*   valid        arun returns, output_parser.parse succeeds
\*   fixed        parse raises ValidationError, fixing_parser.parse succeeds
\*   arun_error   analysis_chain.arun raises
\*   parse_error  parse raises an exception other than ValidationError
\*   fix_error    parse raises ValidationError, fixing_parser.parse raises
BackendOutcomes == {"valid", "fixed", "arun_error", "parse_error", "fix_error"}

C24_OnlyDirectSucceeds(o) == o = "valid"

\* The attempt reaches one of the two `break` statements.
AttemptSucceeds(o) == o \in {"valid", "fixed"}

\* Reaches the fixing parser: the except ValidationError clause.
AttemptRepairs(o) == o \in {"fixed", "fix_error"}

C10_LastAttemptEarly(a) == a = max_retries - 1

\* `if attempt == self.max_retries: raise ValueError(...)`.
IsLastAttempt(a) == a = max_retries

\* sorted(result.missing_info, key=lambda x: x.priority, reverse=True):
\* a stable sort, highest priority first.
RECURSIVE C19_InsertAscending(_, _)
C19_InsertAscending(x, s) ==
    IF s = <<>> THEN <<x>>
    ELSE IF Head(s).priority <= x.priority
         THEN <<Head(s)>> \o C19_InsertAscending(x, Tail(s))
         ELSE <<x>> \o s

RECURSIVE C20_InsertUnstable(_, _)
C20_InsertUnstable(x, s) ==
    IF s = <<>> THEN <<x>>
    ELSE IF Head(s).priority > x.priority
         THEN <<Head(s)>> \o C20_InsertUnstable(x, Tail(s))
         ELSE <<x>> \o s

RECURSIVE InsertByPriority(_, _)
InsertByPriority(x, s) ==
    IF s = <<>> THEN <<x>>
    ELSE IF Head(s).priority >= x.priority
         THEN <<Head(s)>> \o InsertByPriority(x, Tail(s))
         ELSE <<x>> \o s

RECURSIVE SortFrom(_, _)
SortFrom(s, acc) ==
    IF s = <<>> THEN acc
    ELSE SortFrom(Tail(s), InsertByPriority(Head(s), acc))

prioritize_missing_info(missing_info) == SortFrom(missing_info, <<>>)

\* engine.prioritize_missing_info(result), called on its own.
Call_prioritize_missing_info ==
    /\ d_pc = "call"
    /\ d_ret' = prioritize_missing_info(d_result.missing_info)
    /\ d_pc' = "prioritize_missing_info"
    /\ UNCHANGED <<e_pc, user_prompt, max_retries, attempt, errors, result,
                   calls, repairs, d_result, d_min_confidence>>
    /\ UNCHANGED conv_vars

\* Confidence scores and thresholds, in tenths: below, at and above 0.7.
Confidences == {DefaultMinConfidence - 1, DefaultMinConfidence,
                DefaultMinConfidence + 1}
MinConfidences == {DefaultMinConfidence, DefaultMinConfidence + 1}
LaymanTerms == {"website", "login"}

C22_StrictlyAbove(term, min_confidence) == term.confidence > min_confidence

\* `if term.confidence >= min_confidence`
qualifies(term, min_confidence) == term.confidence >= min_confidence

\* {term.layman_term: term.technical_equivalent for term in
\*  result.technical_terms if ...}: built in list order, a later term with
\* the same key replacing the earlier value.
RECURSIVE TranslationsFrom(_, _, _)
TranslationsFrom(terms, min_confidence, d) ==
    IF terms = <<>> THEN d
    ELSE LET term == Head(terms)
         IN  TranslationsFrom(Tail(terms), min_confidence,
                 IF qualifies(term, min_confidence)
                 THEN (term.layman_term :> term.technical_equivalent) @@ d
                 ELSE d)

get_technical_translations(technical_terms, min_confidence) ==
    TranslationsFrom(technical_terms, min_confidence, <<>>)

\* engine.get_technical_translations(result, min_confidence)
Call_get_technical_translations ==
    /\ d_pc = "call"
    /\ \E min_confidence \in MinConfidences :
         /\ d_min_confidence' = min_confidence
         /\ d_ret' = get_technical_translations(d_result.technical_terms,
                                                min_confidence)
    /\ d_pc' = "get_technical_translations"
    /\ UNCHANGED <<e_pc, user_prompt, max_retries, attempt, errors, result,
                   calls, repairs, d_result>>
    /\ UNCHANGED conv_vars

\* class RequirementType(str, Enum)
RequirementType == {"functional", "non-functional", "constraint", "unknown"}

\* The loop of extract_requirements_by_type over result.requirements.items().
\* A list object is named by where it came from: 0 is the list the method
\* made for the type, i > 0 the list under the i-th key of the input.
\*   typed     which list typed_requirements holds for each type
\*   input     the contents of the input's lists
\*   made      the contents of the list made for UNKNOWN
\* `typed_requirements[typed_key] = reqs` puts the input's list itself in the
\* output; `.extend(reqs)` appends to whatever list UNKNOWN holds then.
RECURSIVE ExtractFrom(_, _, _)
ExtractFrom(requirements, i, st) ==
    IF i > Len(requirements) THEN st
    ELSE LET req_type == requirements[i].key
         IN  IF req_type \in RequirementType
             THEN ExtractFrom(requirements, i + 1,
                              [st EXCEPT !.typed[req_type] = i])
             ELSE LET u == st.typed["unknown"]
                  IN  IF u = 0
                      THEN ExtractFrom(requirements, i + 1,
                               [st EXCEPT !.made = @ \o st.input[i]])
                      ELSE ExtractFrom(requirements, i + 1,
                               [st EXCEPT !.input[u] = @ \o st.input[i]])

extract_requirements_by_type(requirements) ==
    ExtractFrom(requirements, 1,
                [typed |-> [t \in RequirementType |-> 0],
                 input |-> [i \in 1..Len(requirements) |->
                              requirements[i].reqs],
                 made  |-> <<>>])

\* The contents of the dictionary returned.
typed_requirements(st) ==
    [t \in RequirementType |->
        IF st.typed[t] # 0 THEN st.input[st.typed[t]]
        ELSE IF t = "unknown" THEN st.made ELSE <<>>]

\* engine.extract_requirements_by_type(result): the value returned, and the
\* argument as the method leaves it.
Call_extract_requirements_by_type ==
    /\ d_pc = "call"
    /\ LET st == extract_requirements_by_type(d_result.requirements)
       IN  /\ d_ret' = typed_requirements(st)
           /\ d_result' = [d_result EXCEPT !.requirements =
                             [i \in 1..Len(d_result.requirements) |->
                                [key  |-> d_result.requirements[i].key,
                                 reqs |-> st.input[i]]]]
    /\ d_pc' = "extract_requirements_by_type"
    /\ UNCHANGED <<e_pc, user_prompt, max_retries, attempt, errors, result,
                   calls, repairs, d_min_confidence>>
    /\ UNCHANGED conv_vars

\* analyze_prompt's loop: one attempt per step.
EngineEnter ==
    /\ e_pc = "call"
    /\ e_pc' = IF strip(user_prompt) = <<>> THEN "invalid_input" ELSE "loop"
    /\ UNCHANGED <<user_prompt, max_retries, attempt, errors, result, calls,
                   repairs>>
    /\ UNCHANGED derived_vars
    /\ UNCHANGED conv_vars

EngineAttempt ==
    /\ e_pc = "loop"
    /\ IF attempt \in range(max_retries + 1)
       THEN \E o \in BackendOutcomes :
              /\ calls' = calls + 1
              /\ repairs' = IF AttemptRepairs(o) THEN repairs + 1 ELSE repairs
              /\ IF AttemptSucceeds(o)
                 THEN /\ result' = o
                      /\ e_pc' = "returned"
                      /\ UNCHANGED <<attempt, errors>>
                 ELSE /\ errors' = Append(errors,
                                     [attempt |-> attempt + 1, cause |-> o])
                      /\ result' = result
                      /\ IF IsLastAttempt(attempt)
                         THEN e_pc' = "raised" /\ attempt' = attempt
                         ELSE e_pc' = "loop" /\ attempt' = attempt + 1
       ELSE /\ e_pc' = "returned"
            /\ UNCHANGED <<attempt, errors, result, calls, repairs>>
    /\ UNCHANGED <<user_prompt, max_retries>>
    /\ UNCHANGED derived_vars
    /\ UNCHANGED conv_vars

\* ------------------------------------------------------ conversation store

\* get_conversation's answer for an unknown id; also an idle handler's copy.
NoConversation ==
    [exists |-> FALSE, user_id |-> "", stage |-> "", analyzed |-> FALSE,
     analysis_result |-> <<>>, open_questions |-> <<>>, message_log |-> <<>>,
     answers |-> <<>>, spec_id |-> NoSpecId]

\* ConversationManager.initialize_conversation
initialize_conversation(user) ==
    [exists |-> TRUE, user_id |-> user, stage |-> "collecting",
     analyzed |-> FALSE, analysis_result |-> <<>>, open_questions |-> <<>>,
     message_log |-> <<>>, answers |-> <<>>, spec_id |-> NoSpecId]

\* ConversationManager.get_conversation: the stored state, or none.
get_conversation(stored) == stored

\* ConversationManager.update_conversation: the stored state is replaced whole.
update_conversation(conversation) == conversation

\* ConversationManager.add_user_message: appended to the stored log.
add_user_message(stored, message) ==
    [stored EXCEPT !.message_log = Append(@, message)]

\* ConversationManager.answer_question: the (question, answer) pair is
\* recorded and the head of the stored queue popped.
answer_question(stored, question, answer) ==
    [stored EXCEPT !.answers = Append(@, <<question, answer>>),
                   !.open_questions = IF @ = <<>> THEN <<>> ELSE Tail(@)]

\* SpecificationRepository.get_specification
get_specification(spec_id) == {s \in specs : s.id = spec_id}

\* str(uuid.uuid4()): an id no stored specification has.
fresh_spec_id == Cardinality(specs) + 1

\* ---------------------------------------------------------------- handlers

NoResponse ==
    [status |-> 0, stage |-> "", question |-> 0,
     awaiting_user |-> FALSE, spec_ready |-> FALSE, spec_id |-> NoSpecId]

\* HTTPException(status_code=...) as the client receives it.
ErrorResponse(code) == [NoResponse EXCEPT !.status = code]

\* ConversationResponse(...)
ConversationResponse(code, stage, question, awaiting, ready, spec_id) ==
    [status |-> code, stage |-> stage, question |-> question,
     awaiting_user |-> awaiting, spec_ready |-> ready, spec_id |-> spec_id]

\* Handlers that hold a copy of the conversation.
Holders == {r \in Reqs : pc[r] # "idle"}

\* Another operation's write outdates every copy held.
Outdate(writer) ==
    /\ dirty' = (dirty \cup Holders) \ {writer}
    /\ bg_dirty' = (bg_pc = "analyzing")

\* ConversationResponse(message=<the next question>, ...): the caller has
\* now been shown the question of the response just sent, if it carries one.
Present ==
    presented' = presented \cup ({response'.question} \ {0})

\* The handler returns or raises: its locals are gone.
Finish(r, resp) ==
    /\ pc' = [pc EXCEPT ![r] = "idle"]
    /\ loc' = [loc EXCEPT ![r] = NoConversation]
    /\ msg' = [msg EXCEPT ![r] = 0]
    /\ response' = resp

\* start_conversation: the conversation is initialized and the analysis is
\* scheduled as a background task; the caller is answered at once.
start_conversation(user) ==
    /\ ~conv.exists
    /\ conv' = initialize_conversation(user)
    /\ bg_pc' = "scheduled"
    /\ response' = ConversationResponse(201, "collecting", 0, FALSE,
                                        FALSE, NoSpecId)
    /\ UNCHANGED <<specs, bg_copy, pc, loc, msg, n_req, dirty, bg_dirty>>
    /\ Present
    /\ UNCHANGED engine_vars

C12_StrangerSeesNotFound(exists, owner, user) ==
    IF ~exists \/ owner # user THEN 404 ELSE 0

\* `if not <resource>: raise HTTPException(404)`, then
\* `if <resource>.user_id != current_user["user_id"]: raise HTTPException(403)`;
\* 0 when the caller may go on.
access_denied(exists, owner, user) ==
    IF ~exists THEN 404 ELSE IF owner # user THEN 403 ELSE 0

C28_GetRetriesAssembly(r, user) ==
    /\ pc[r] = "idle"
    /\ \A q \in Reqs : pc[q] = "idle" => r <= q
    /\ n_req < MaxMsgs
    /\ n_req' = n_req + 1
    /\ LET c == get_conversation(conv)
           n == n_req + 1
           enter(at) == /\ pc' = [pc EXCEPT ![r] = at]
                        /\ loc' = [loc EXCEPT ![r] = c]
                        /\ msg' = [msg EXCEPT ![r] = n]
                        /\ response' = response
           denied == access_denied(c.exists, c.user_id, user)
       IN  IF denied # 0 THEN Finish(r, ErrorResponse(denied))
           ELSE IF c.stage = "collecting" THEN enter("add_user_message")
           ELSE IF c.stage = "clarifying"
                THEN IF c.open_questions = <<>>
                     \* open_questions[0] raises IndexError
                     THEN Finish(r, ErrorResponse(500))
                     ELSE enter("answer_question")
           ELSE IF c.stage = "completed" THEN enter("get_specification")
           ELSE IF c.stage = "generating" THEN enter("generate_specification")
           \* HTTPException(400) raised inside the try block is caught by
           \* `except Exception` and raised again as 500
           ELSE Finish(r, ErrorResponse(500))
    /\ dirty' = dirty \ {r}
    /\ UNCHANGED <<conv, specs, bg_pc, bg_copy, bg_dirty>>
    /\ Present
    /\ UNCHANGED engine_vars

\* send_message up to its first await inside the try block: the conversation
\* is read, existence and ownership are checked, and the stage is dispatched.
SM_Get(r, user) ==
    /\ pc[r] = "idle"
    /\ \A q \in Reqs : pc[q] = "idle" => r <= q
    /\ n_req < MaxMsgs
    /\ n_req' = n_req + 1
    /\ LET c == get_conversation(conv)
           n == n_req + 1
           enter(at) == /\ pc' = [pc EXCEPT ![r] = at]
                        /\ loc' = [loc EXCEPT ![r] = c]
                        /\ msg' = [msg EXCEPT ![r] = n]
                        /\ response' = response
           denied == access_denied(c.exists, c.user_id, user)
       IN  IF denied # 0 THEN Finish(r, ErrorResponse(denied))
           ELSE IF c.stage = "collecting" THEN enter("add_user_message")
           ELSE IF c.stage = "clarifying"
                THEN IF c.open_questions = <<>>
                     \* open_questions[0] raises IndexError
                     THEN Finish(r, ErrorResponse(500))
                     ELSE enter("answer_question")
           ELSE IF c.stage = "completed" THEN enter("get_specification")
           \* HTTPException(400) raised inside the try block is caught by
           \* `except Exception` and raised again as 500
           ELSE Finish(r, ErrorResponse(500))
    /\ dirty' = dirty \ {r}
    /\ UNCHANGED <<conv, specs, bg_pc, bg_copy, bg_dirty>>
    /\ Present
    /\ UNCHANGED engine_vars

\* stage COLLECTING: await add_user_message, then the local stage is chosen.
SM_AddMessage(r) ==
    /\ pc[r] = "add_user_message"
    /\ conv' = add_user_message(conv, msg[r])
    /\ pc' = [pc EXCEPT ![r] = IF loc[r].open_questions # <<>>
                                THEN "update_clarifying"
                                ELSE "update_generating"]
    /\ Outdate(r)
    /\ UNCHANGED <<specs, bg_pc, bg_copy, loc, msg, n_req, response>>
    /\ Present
    /\ UNCHANGED engine_vars

\* await update_conversation(conversation) with the stage just set.
SM_UpdateStage(r) ==
    /\ pc[r] \in {"update_clarifying", "update_generating"}
    /\ LET target == IF pc[r] = "update_clarifying" THEN "clarifying"
                     ELSE "generating"
           c == [loc[r] EXCEPT !.stage = target]
       IN  /\ conv' = update_conversation(c)
           /\ IF pc[r] = "update_clarifying"
              THEN Finish(r, ConversationResponse(200, c.stage,
                               c.open_questions[1], TRUE, FALSE, NoSpecId))
              ELSE /\ pc' = [pc EXCEPT ![r] = "generate_specification"]
                   /\ loc' = [loc EXCEPT ![r] = c]
                   /\ UNCHANGED <<msg, response>>
    /\ Outdate(r)
    /\ UNCHANGED <<specs, bg_pc, bg_copy, n_req>>
    /\ Present
    /\ UNCHANGED engine_vars

\* What generate_specification's awaits can do.
AssemblyOutcomes == {"saved", "enrich_failed", "generate_failed", "save_failed"}

C26_SpecForNobody(id, user) == [id |-> id, user_id |-> "", version |-> 1]

\* ProjectSpecification(id=str(uuid.uuid4()), user_id=..., version=1)
ProjectSpecification(id, user) == [id |-> id, user_id |-> user, version |-> 1]

\* await generate_specification(...): on success the specification is saved
\* and spec_id and stage are set on the local conversation; any exception
\* is raised again and leaves send_message as a 500.
SM_Generate(r) ==
    /\ pc[r] = "generate_specification"
    /\ \E o \in AssemblyOutcomes :
         IF o = "saved"
         THEN LET spec == ProjectSpecification(fresh_spec_id, loc[r].user_id)
              IN  /\ specs' = specs \cup {spec}
                  /\ loc' = [loc EXCEPT ![r].spec_id = spec.id,
                                        ![r].stage = "completed"]
                  /\ pc' = [pc EXCEPT ![r] = "update_completed"]
                  /\ UNCHANGED <<msg, response, dirty>>
         ELSE /\ Finish(r, ErrorResponse(500))
              /\ dirty' = dirty \ {r}
              /\ specs' = specs
    /\ UNCHANGED <<conv, bg_pc, bg_copy, n_req, bg_dirty>>
    /\ Present
    /\ UNCHANGED engine_vars

\* await update_conversation(conversation) with spec_id and COMPLETED.
SM_UpdateCompleted(r) ==
    /\ pc[r] = "update_completed"
    /\ conv' = update_conversation(loc[r])
    /\ Finish(r, ConversationResponse(200, "completed", 0, FALSE,
                                      TRUE, loc[r].spec_id))
    /\ dirty' = (dirty \cup Holders) \ {r}
    /\ bg_dirty' = (bg_pc = "analyzing")
    /\ UNCHANGED <<specs, bg_pc, bg_copy, n_req>>
    /\ Present
    /\ UNCHANGED engine_vars

\* stage CLARIFYING: await answer_question for the head of the copy's queue.
SM_Answer(r) ==
    /\ pc[r] = "answer_question"
    /\ conv' = answer_question(conv, loc[r].open_questions[1], msg[r])
    /\ pc' = [pc EXCEPT ![r] = "reread"]
    /\ Outdate(r)
    /\ UNCHANGED <<specs, bg_pc, bg_copy, loc, msg, n_req, response>>
    /\ Present
    /\ UNCHANGED engine_vars

\* conversation = await get_conversation(conversation_id), then the next
\* question is returned or the stage is set to GENERATING.
SM_Reread(r) ==
    /\ pc[r] = "reread"
    /\ LET c == get_conversation(conv)
       IN  IF c.open_questions # <<>>
           THEN Finish(r, ConversationResponse(200, c.stage,
                            c.open_questions[1], TRUE, FALSE, NoSpecId))
           ELSE /\ pc' = [pc EXCEPT ![r] = "update_generating"]
                /\ loc' = [loc EXCEPT ![r] = c]
                /\ UNCHANGED <<msg, response>>
    /\ dirty' = dirty \ {r}
    /\ UNCHANGED <<conv, specs, bg_pc, bg_copy, n_req, bg_dirty>>
    /\ Present
    /\ UNCHANGED engine_vars

C16_GetSpecLogsMessage(r) ==
    /\ pc[r] = "get_specification"
    /\ conv' = add_user_message(conv, msg[r])
    /\ Finish(r, ConversationResponse(200, loc[r].stage, 0, FALSE, TRUE,
                                      loc[r].spec_id))
    /\ Outdate(r)
    /\ UNCHANGED <<specs, bg_pc, bg_copy, n_req>>
    /\ Present
    /\ UNCHANGED engine_vars

\* stage COMPLETED: await get_specification(conversation.spec_id).
SM_GetSpec(r) ==
    /\ pc[r] = "get_specification"
    /\ LET found == get_specification(loc[r].spec_id)
       IN  IF found = {}
           \* HTTPException(404) caught by `except Exception`
           THEN Finish(r, ErrorResponse(500))
           ELSE Finish(r, ConversationResponse(200, loc[r].stage, 0,
                            FALSE, TRUE, (CHOOSE s \in found : TRUE).id))
    /\ dirty' = dirty \ {r}
    /\ UNCHANGED <<conv, specs, bg_pc, bg_copy, n_req, bg_dirty>>
    /\ Present
    /\ UNCHANGED engine_vars

\* SpecificationResponse(spec_id=spec.id, ..., version=spec.version)
SpecificationResponse(spec) ==
    [NoResponse EXCEPT !.status = 200, !.spec_ready = TRUE, !.spec_id = spec.id]

\* GET /v1/spec/{spec_id}: the route get_specification.
GET_specification(spec_id, user) ==
    /\ n_req < MaxMsgs
    /\ n_req' = n_req + 1
    /\ LET found == get_specification(spec_id)
           owner == IF found = {} THEN "" ELSE (CHOOSE s \in found : TRUE).user_id
           denied == access_denied(found # {}, owner, user)
       IN  response' = IF denied # 0 THEN ErrorResponse(denied)
                       ELSE SpecificationResponse(CHOOSE s \in found : TRUE)
    /\ UNCHANGED <<conv, specs, bg_pc, bg_copy, pc, loc, msg, dirty, bg_dirty>>
    /\ Present
    /\ UNCHANGED engine_vars

\* ---------------------------------------------------------- background task

\* BoundedSeq(S, n): the sequences over S of length at most n.
BoundedSeq(S, n) == UNION {[1..k -> S] : k \in 0..n}

\* What `await analysis_engine.analyze_prompt(initial_prompt)` can do: raise,
\* or return a result with its missing_info list.
\* The i-th item asks the question i.
MissingInfoList(priorities) ==
    [i \in 1..Len(priorities) |-> [question |-> i, priority |-> priorities[i]]]

AnalysisOutcomes ==
    {[ok |-> FALSE, missing_info |-> <<>>]}
    \cup {[ok |-> TRUE, missing_info |-> MissingInfoList(p)] :
            p \in BoundedSeq(Priorities, MaxQuestions)}

\* [info.question for info in missing_info]
question_list(missing_info) ==
    [i \in 1..Len(missing_info) |-> missing_info[i].question]

C8_AnalysisKeepsStage(stage, open_questions) == stage

\* conversation.stage = ConversationStage.CLARIFYING
analysis_stage(stage, open_questions) == "clarifying"

\* analyze_initial_prompt: conversation = await get_conversation(...)
BG_Get ==
    /\ bg_pc = "scheduled"
    /\ bg_copy' = get_conversation(conv)
    /\ bg_pc' = "analyzing"
    /\ bg_dirty' = FALSE
    /\ UNCHANGED <<conv, specs, pc, loc, msg, n_req, response, dirty>>
    /\ Present
    /\ UNCHANGED engine_vars

\* analyze_initial_prompt once analyze_prompt has returned or raised: the
\* questions are installed on the copy and the copy is written back; an
\* exception is logged and swallowed.
BG_Analyzed ==
    /\ bg_pc = "analyzing"
    /\ \E o \in AnalysisOutcomes :
         IF o.ok
         THEN LET open_questions ==
                      question_list(prioritize_missing_info(o.missing_info))
                  c == [bg_copy EXCEPT
                          !.analyzed = TRUE,
                          !.analysis_result = o.missing_info,
                          !.open_questions = open_questions,
                          !.stage = analysis_stage(@, open_questions)]
              IN  /\ conv' = update_conversation(c)
                  /\ bg_pc' = "done"
                  /\ dirty' = dirty \cup Holders
         ELSE /\ bg_pc' = "failed"
              /\ UNCHANGED <<conv, dirty>>
    /\ bg_copy' = NoConversation
    /\ bg_dirty' = FALSE
    /\ UNCHANGED <<specs, pc, loc, msg, n_req, response>>
    /\ Present
    /\ UNCHANGED engine_vars

\* ----------------------------------------------------------- specifications

InitConversation ==
    /\ conv = NoConversation
    /\ specs = {}
    /\ bg_pc = "none"
    /\ bg_copy = NoConversation
    /\ pc = [r \in Reqs |-> "idle"]
    /\ loc = [r \in Reqs |-> NoConversation]
    /\ msg = [r \in Reqs |-> 0]
    /\ n_req = 0
    /\ response = NoResponse
    /\ presented = {}
    /\ dirty = {}
    /\ bg_dirty = FALSE

InitEngineLocals ==
    /\ e_pc = "call"
    /\ attempt = 0
    /\ errors = <<>>
    /\ result = "None"
    /\ calls = 0
    /\ repairs = 0
    /\ d_pc = "call"
    /\ d_min_confidence = DefaultMinConfidence
    /\ d_ret = <<>>

\* AnalysisResult(): every list empty.
EmptyAnalysisResult ==
    [missing_info |-> <<>>, technical_terms |-> <<>>, requirements |-> <<>>]

\* The service: the engine is the one get_prompt_analysis_engine builds.
Init ==
    /\ InitConversation
    /\ InitEngineLocals
    /\ user_prompt = <<"a">>
    /\ max_retries = DefaultMaxRetries
    /\ d_result = EmptyAnalysisResult

Next ==
    \/ \E u \in Users : start_conversation(u)
    \/ BG_Get
    \/ BG_Analyzed
    \/ \E r \in Reqs, u \in Users : SM_Get(r, u)
    \/ \E r \in Reqs : SM_AddMessage(r)
    \/ \E r \in Reqs : SM_UpdateStage(r)
    \/ \E r \in Reqs : SM_Generate(r)
    \/ \E r \in Reqs : SM_UpdateCompleted(r)
    \/ \E r \in Reqs : SM_Answer(r)
    \/ \E r \in Reqs : SM_Reread(r)
    \/ \E r \in Reqs : SM_GetSpec(r)
    \/ \E id \in 1..MaxMsgs, u \in Users : GET_specification(id, u)

Spec == Init /\ [][Next]_vars

\* analyze_prompt on its own, for every prompt and retry budget.
InitEngine ==
    /\ InitConversation
    /\ InitEngineLocals
    /\ user_prompt \in BoundedSeq(Chars, MaxPromptLen)
    /\ max_retries \in 0..MaxRetriesBound
    /\ d_result = EmptyAnalysisResult

NextEngine ==
    \/ EngineEnter
    \/ EngineAttempt

SpecEngine == InitEngine /\ [][NextEngine]_vars

\* The service when operations do not overlap and no collaborator fails: a
\* request is received only when no handler and no analysis is under way.
NoOperationRunning ==
    /\ \A r \in Reqs : pc[r] = "idle"
    /\ bg_pc \in {"none", "done"}

NextSerial ==
    \/ \E u \in Users : start_conversation(u)
    \/ BG_Get
    \/ BG_Analyzed /\ bg_pc' = "done"
    \/ \E r \in Reqs, u \in Users : NoOperationRunning /\ SM_Get(r, u)
    \/ \E r \in Reqs : SM_UpdateStage(r)
    \/ \E r \in Reqs : SM_Generate(r) /\ pc'[r] = "update_completed"
    \/ \E r \in Reqs : SM_UpdateCompleted(r)
    \/ \E r \in Reqs : SM_Answer(r)
    \/ \E r \in Reqs : SM_Reread(r)
    \/ \E r \in Reqs : SM_GetSpec(r)
    \/ \E id \in 1..MaxMsgs, u \in Users :
         NoOperationRunning /\ GET_specification(id, u)

SpecSerial == Init /\ [][NextSerial]_vars

\* The methods that derive values from an AnalysisResult, for every result.
\* Each method reads one field, so one field is populated at a time.
\* The i-th term's technical equivalent is i.
TechnicalTermList(names, confidences) ==
    [i \in 1..Len(names) |->
        [layman_term |-> names[i], technical_equivalent |-> i,
         confidence |-> confidences[i]]]

\* Category keys as the backend writes them: the enumeration's values and
\* labels outside it.
CategoryLabels == RequirementType \cup {"performance", "security"}

\* A dict: its keys are distinct, in insertion order. The j-th requirement
\* under the i-th key is <<i, j>>.
RequirementsMappings ==
    {[i \in 1..Len(kl[1]) |->
        [key |-> kl[1][i], reqs |-> [j \in 1..kl[2][i] |-> <<i, j>>]]] :
     kl \in
        {x \in BoundedSeq(CategoryLabels, MaxCategories)
                \X BoundedSeq(0..MaxListLen, MaxCategories) :
            /\ Len(x[1]) = Len(x[2])
            /\ \A i, j \in 1..Len(x[1]) : i # j => x[1][i] # x[1][j]}}

AnalysisResults ==
    {[EmptyAnalysisResult EXCEPT !.missing_info = MissingInfoList(p)] :
        p \in BoundedSeq(MinPriority..MaxPriority, MaxMissingInfo)}
    \cup {[EmptyAnalysisResult EXCEPT
             !.technical_terms = TechnicalTermList(nc[1], nc[2])] :
          nc \in {x \in BoundedSeq(LaymanTerms, MaxTerms)
                        \X BoundedSeq(Confidences, MaxTerms) :
                    Len(x[1]) = Len(x[2])}}
    \cup {[EmptyAnalysisResult EXCEPT !.requirements = m] :
          m \in RequirementsMappings}

InitDerived ==
    /\ InitConversation
    /\ InitEngineLocals
    /\ user_prompt = <<"a">>
    /\ max_retries = DefaultMaxRetries
    /\ d_result \in AnalysisResults

NextDerived ==
    \/ Call_prioritize_missing_info
    \/ Call_get_technical_translations
    \/ Call_extract_requirements_by_type

SpecDerived == InitDerived /\ [][NextDerived]_vars

\* ------------------------------------------------------------------ claims

\* No send_message handler is between its first read and its return.
Quiescent == \A r \in Reqs : pc[r] = "idle"

\* A step in which handler r, or the background task, writes its copy back.
HandlerWrites(r) ==
    /\ pc[r] \in {"update_clarifying", "update_generating", "update_completed"}
    /\ pc'[r] # pc[r]

AnalysisWrites == bg_pc = "analyzing" /\ bg_pc' = "done"

\* C1: in every stored conversation state, stage is COMPLETED if and only if
\* spec_id is non-null.
C1_CompletedIffSpecId ==
    conv.exists => (conv.stage = "completed" <=> conv.spec_id # NoSpecId)

\* C2: spec_id is write-once: once the stored spec_id is non-null it never
\* changes again, neither back to null nor to another id.
C2_SpecIdWriteOnce ==
    [][conv.spec_id # NoSpecId => conv'.spec_id = conv.spec_id]_vars

\* C3: generate_specification runs at most once per conversation: at most one
\* ProjectSpecification is ever persisted for the conversation.
C3_AtMostOneSpecification == Cardinality(specs) <= 1

\* C4: while the stored stage is COLLECTING and the background extraction has
\* not completed (or has failed), a step of a send_message handler leaves the
\* stored stage COLLECTING, generates no specification and leaves spec_id null.
C4_CollectingOnlyLogs ==
    [][(/\ conv.exists
        /\ conv.stage = "collecting"
        /\ bg_pc # "done"
        /\ bg_pc' = bg_pc)
       => (/\ conv'.stage = "collecting"
           /\ conv'.spec_id = NoSpecId
           /\ specs' = specs)]_vars

\* C5: when the background extraction completes successfully the stored stage
\* becomes CLARIFYING if the question list is non-empty and GENERATING if it
\* is empty; it is never CLARIFYING with an empty queue.
C5_StageAfterExtraction ==
    [][AnalysisWrites
       => conv'.stage = IF conv'.open_questions # <<>> THEN "clarifying"
                        ELSE "generating"]_vars

\* C6: once extraction has installed its N questions and every one of them
\* has been answered in order (none for N = 0), with no request in flight, the
\* conversation has reached GENERATING (or gone on to COMPLETED) with an empty
\* queue.
C6_AnsweredReachesGenerating ==
    (Quiescent /\ conv.exists /\ conv.analyzed /\ conv.open_questions = <<>>)
    => conv.stage \in {"generating", "completed"}

\* C7: no update_conversation writes a copy that was read before another
\* operation's write to the same conversation.
C7_NoStaleWrite ==
    [][/\ \A r \in Reqs : HandlerWrites(r) => r \notin dirty
       /\ AnalysisWrites => ~bg_dirty]_vars

\* C8: in every stored conversation state, open_questions is non-empty only
\* if the stage is CLARIFYING.
C8_QuestionsOnlyWhileClarifying ==
    (conv.exists /\ conv.open_questions # <<>>) => conv.stage = "clarifying"

\* A question has been answered and another is still queued.
C8_Witness ==
    /\ conv.exists
    /\ conv.stage = "clarifying"
    /\ conv.open_questions # <<>>
    /\ conv.answers # <<>>

\* The stage moves the design allows, the stage staying as it is included.
StageMoves ==
    {<<"collecting", "clarifying">>, <<"collecting", "generating">>,
     <<"clarifying", "generating">>, <<"generating", "completed">>}

\* C9: the stored stage only moves forward along COLLECTING -> CLARIFYING ->
\* GENERATING -> COMPLETED (COLLECTING -> GENERATING the one skip), and
\* COMPLETED is terminal.
C9_StageOnlyForward ==
    [][conv.exists
       => (conv'.stage = conv.stage
           \/ <<conv.stage, conv'.stage>> \in StageMoves)]_vars

\* C10: for a non-empty input and a retry budget max_retries >= 0,
\* analyze_prompt returns only with a valid result, and raises only after
\* exactly max_retries + 1 failed attempts, the failure carrying one recorded
\* cause per attempt.
C10_ReturnsValidOrRaisesAfterBudget ==
    /\ e_pc = "returned"
       => /\ result \in {"valid", "fixed"}
          /\ calls <= max_retries + 1
          /\ Len(errors) = calls - 1
    /\ e_pc = "raised"
       => /\ result = "None"
          /\ calls = max_retries + 1
          /\ Len(errors) = max_retries + 1
          /\ \A i \in 1..Len(errors) : errors[i].attempt = i

\* Three failed attempts under the default budget of 2 retries.
C10_Witness ==
    /\ e_pc = "raised"
    /\ max_retries = DefaultMaxRetries
    /\ Len(errors) = 3

\* C11: analyze_prompt on an empty or whitespace-only input fails at once with
\* the invalid-input error: no backend call is made and no attempt of the
\* retry budget is used.
C11_EmptyPromptRejectedAtOnce ==
    /\ e_pc = "invalid_input"
       => /\ calls = 0
          /\ repairs = 0
          /\ attempt = 0
          /\ errors = <<>>
          /\ result = "None"
    /\ (\A i \in 1..Len(user_prompt) : user_prompt[i] = " ")
       => /\ e_pc \in {"call", "invalid_input"}
          /\ calls = 0

\* A whitespace-only prompt has been rejected.
C11_Witness ==
    /\ e_pc = "invalid_input"
    /\ Len(user_prompt) = MaxPromptLen

\* C12: send_message and get_specification answer 403 whenever the target
\* exists and the caller is not its owner, and 404 whenever the target id is
\* unknown; an existing resource is never reported as not found to a caller
\* who does not own it, and neither rejection changes stored state.
C12_AccessRejections ==
    [][/\ \A r \in Reqs, u \in Users :
            SM_Get(r, u)
            => /\ ~conv.exists
                  => /\ response'.status = 404
                     /\ pc'[r] = "idle"
                     /\ conv' = conv /\ specs' = specs
               /\ (conv.exists /\ conv.user_id # u)
                  => /\ response'.status = 403
                     /\ pc'[r] = "idle"
                     /\ conv' = conv /\ specs' = specs
       /\ \A id \in 1..MaxMsgs, u \in Users :
            GET_specification(id, u)
            => /\ (\A s \in specs : s.id # id)
                  => /\ response'.status = 404
                     /\ conv' = conv /\ specs' = specs
               /\ (\E s \in specs : s.id = id /\ s.user_id # u)
                  => /\ response'.status = 403
                     /\ conv' = conv /\ specs' = specs]_vars

\* A caller has been refused a conversation or specification that exists.
C12_Witness ==
    /\ response.status = 403
    /\ conv.exists
    /\ specs # {}

\* C13: when a step of specification assembly fails during send_message, the
\* caller gets the failure, the stored spec_id is null and the stored stage
\* is GENERATING.
C13_AssemblyFailureLeavesGenerating ==
    [][\A r \in Reqs :
         (pc[r] = "generate_specification" /\ pc'[r] = "idle")
         => /\ response'.status = 500
            /\ conv'.spec_id = NoSpecId
            /\ conv'.stage = "generating"]_vars

\* C14: when the background extraction fails, no caller is told and the
\* stored conversation is as it was: COLLECTING, not analyzed, no questions.
C14_ExtractionFailureLeavesCollecting ==
    [][(bg_pc = "analyzing" /\ bg_pc' = "failed")
       => /\ response' = response
          /\ conv' = conv
          /\ conv'.stage = "collecting"
          /\ ~conv'.analyzed
          /\ conv'.open_questions = <<>>]_vars

C16_CompletedMessageMutatesNothing ==
    [][\A r \in Reqs :
         /\ (SM_Get(r, conv.user_id) /\ conv.exists /\ conv.stage = "completed")
            => /\ pc'[r] = "get_specification"
               /\ loc'[r] = conv
               /\ conv' = conv /\ specs' = specs
         /\ (pc[r] = "get_specification" /\ pc'[r] # pc[r])
            => /\ conv' = conv /\ specs' = specs
               /\ loc[r].stage = "completed"
               /\ loc[r].spec_id # NoSpecId
               /\ response' = ConversationResponse(200, "completed", 0, FALSE,
                                                   TRUE, loc[r].spec_id)]_vars

\* A handler has read a completed conversation and is about to answer from
\* the stored specification; the store is as the handler read it.
C16_Witness ==
    \E r \in Reqs :
        /\ pc[r] = "get_specification"
        /\ loc[r].stage = "completed"
        /\ loc[r].spec_id # NoSpecId
        /\ conv = loc[r]
        /\ get_specification(loc[r].spec_id) # {}

\* C17: every answer recorded in stage CLARIFYING is recorded against the
\* head of the stored queue at that moment, so the questions are answered in
\* the installed order, none skipped or repeated.
C17_AnswersTargetStoredHead ==
    [][\A r \in Reqs :
         (pc[r] = "answer_question" /\ pc'[r] = "reread")
         => /\ conv.open_questions # <<>>
            /\ loc[r].open_questions[1] = conv.open_questions[1]
            /\ conv'.answers = Append(conv.answers,
                                      <<conv.open_questions[1], msg[r]>>)]_vars

\* C18: the stored message_log only grows at its end: every message stored
\* is still there, in the same order, after every step.
C18_MessageLogAppendOnly ==
    [][/\ Len(conv.message_log) <= Len(conv'.message_log)
       /\ \A i \in 1..Len(conv.message_log) :
            conv'.message_log[i] = conv.message_log[i]]_vars

\* C19: when operations do not overlap and nothing fails, a conversation whose
\* extraction yields 2 missing-information items is stored in CLARIFYING with
\* 2 open questions in descending priority; the two answers are recorded in
\* that order and take it from CLARIFYING to GENERATING to COMPLETED, the
\* response of the completing request carrying the stored, non-null spec_id.
C19_TwoQuestionsRun ==
    [][LET c == conv'
           priority(q) == c.analysis_result[q].priority
           asked(i) == c.answers[i][1]
       IN  /\ (c.analyzed /\ Len(c.analysis_result) = 2)
              => /\ Len(c.answers) = 0
                    => /\ c.stage = "clarifying"
                       /\ Len(c.open_questions) = 2
                       /\ c.open_questions[1] # c.open_questions[2]
                       /\ priority(c.open_questions[1])
                            >= priority(c.open_questions[2])
                 /\ Len(c.answers) = 1
                    => /\ c.stage = "clarifying"
                       /\ Len(c.open_questions) = 1
                       /\ asked(1) # c.open_questions[1]
                       /\ priority(asked(1)) >= priority(c.open_questions[1])
                 /\ Len(c.answers) = 2
                    => /\ c.open_questions = <<>>
                       /\ asked(1) # asked(2)
                       /\ priority(asked(1)) >= priority(asked(2))
                       /\ c.stage \in {"clarifying", "generating", "completed"}
                       /\ (\A r \in Reqs : pc'[r] = "idle")
                          => /\ c.stage = "completed"
                             /\ c.spec_id # NoSpecId
                 /\ Len(c.answers) <= 2
           /\ conv.stage # c.stage
              => <<conv.stage, c.stage>> \in
                   {<<"", "collecting">>, <<"collecting", "clarifying">>,
                    <<"clarifying", "generating">>,
                    <<"generating", "completed">>}
           /\ \A r \in Reqs :
                (pc[r] = "update_completed" /\ pc'[r] = "idle")
                => /\ response'.status = 200
                   /\ response'.stage = "completed"
                   /\ response'.spec_id = c.spec_id
                   /\ c.spec_id # NoSpecId
                   /\ c.stage = "completed"]_vars

\* Two questions, the second of higher priority, have both been answered and
\* the conversation is completed with the spec_id the caller was given.
C19_Witness ==
    /\ conv.analyzed
    /\ Len(conv.analysis_result) = 2
    /\ conv.analysis_result[1].priority < conv.analysis_result[2].priority
    /\ Len(conv.answers) = 2
    /\ conv.stage = "completed"
    /\ conv.spec_id # NoSpecId
    /\ response.spec_id = conv.spec_id

\* C20: prioritize_missing_info returns a permutation of missing_info in
\* descending priority in which items of equal priority keep their input
\* order; the output is thereby determined by the input.
C20_PrioritizeStableDescending ==
    d_pc = "prioritize_missing_info"
    => /\ Len(d_ret) = Len(d_result.missing_info)
       /\ \A i \in 1..Len(d_result.missing_info) :
            \E j \in 1..Len(d_ret) : d_ret[j] = d_result.missing_info[i]
       /\ \A i, j \in 1..Len(d_ret) :
            i < j => \/ d_ret[i].priority > d_ret[j].priority
                     \/ /\ d_ret[i].priority = d_ret[j].priority
                        /\ d_ret[i].question < d_ret[j].question

\* A list with a tie and with a later item of higher priority has been sorted.
C20_Witness ==
    /\ d_pc = "prioritize_missing_info"
    /\ Len(d_ret) = MaxMissingInfo
    /\ d_ret # d_result.missing_info
    /\ \E i, j \in 1..Len(d_ret) :
         i < j /\ d_ret[i].priority = d_ret[j].priority

\* C21: extract_requirements_by_type discards no requirement: each one filed
\* under a recognized category is in that category's output list, each one
\* filed under an unrecognized label is in the unknown output list, whatever
\* the order of the keys.
C21_NoRequirementDiscarded ==
    [][(d_pc = "call" /\ d_pc' = "extract_requirements_by_type")
       => \A i \in 1..Len(d_result.requirements) :
            LET item == d_result.requirements[i]
                target == IF item.key \in RequirementType THEN item.key
                          ELSE "unknown"
            IN  \A j \in 1..Len(item.reqs) :
                  \E n \in 1..Len(d_ret'[target]) :
                    d_ret'[target][n] = item.reqs[j]]_vars

\* C22: get_technical_translations holds a layman term exactly when some term
\* of that name has confidence >= min_confidence, and maps it to the
\* technical equivalent of the last such term in input order.
C22_TranslationsAtOrAboveThreshold ==
    d_pc = "get_technical_translations"
    => LET terms == d_result.technical_terms
           kept == {i \in 1..Len(terms) :
                      terms[i].confidence >= d_min_confidence}
       IN  /\ DOMAIN d_ret = {terms[i].layman_term : i \in kept}
           /\ \A i \in kept :
                (\A j \in kept : terms[j].layman_term = terms[i].layman_term
                                 => j <= i)
                => d_ret[terms[i].layman_term] = terms[i].technical_equivalent

\* With the default threshold, a term at exactly 0.7 has replaced an earlier
\* qualifying term of the same name.
C22_Witness ==
    /\ d_pc = "get_technical_translations"
    /\ d_min_confidence = DefaultMinConfidence
    /\ Len(d_result.technical_terms) = MaxTerms
    /\ \E i, j \in 1..Len(d_result.technical_terms) :
         /\ i < j
         /\ d_result.technical_terms[i].layman_term
              = d_result.technical_terms[j].layman_term
         /\ d_result.technical_terms[i].confidence > DefaultMinConfidence
         /\ d_result.technical_terms[j].confidence = DefaultMinConfidence
         /\ d_ret[d_result.technical_terms[j].layman_term]
              = d_result.technical_terms[j].technical_equivalent

\* C23: the derived operations leave the AnalysisResult passed in unchanged,
\* every list of its requirements mapping included.
C23_DerivedOperationsPure ==
    [][d_result' = d_result]_vars

\* C24: in analyze_prompt a successful parse on any attempt ends the loop: the
\* successful attempt's call is the last backend call, its result is what is
\* returned, and no attempt that parsed is recorded as a failure and retried.
C24_SuccessEndsLoop ==
    [][/\ \A i \in 1..Len(errors') : errors'[i].cause \notin {"valid", "fixed"}
       /\ (e_pc = "loop" /\ e_pc' = "returned")
          => /\ result' \in {"valid", "fixed"}
             /\ calls' = calls + 1
             /\ calls' = attempt + 1
             /\ errors' = errors
             /\ attempt' = attempt
       /\ e_pc = "returned"
          => /\ e_pc' = "returned"
             /\ calls' = calls
             /\ result' = result]_vars

\* A repaired parse has been returned after an earlier attempt failed.
C24_Witness ==
    /\ e_pc = "returned"
    /\ result = "fixed"
    /\ Len(errors) >= 1
    /\ calls = Len(errors) + 1

\* C25: within one attempt, whenever the direct parse of the backend response
\* fails, exactly one repair pass is tried before the attempt is given up; an
\* attempt whose parse and repair both fail uses one unit of the retry budget
\* and records one cause.
C25_FailedParseIsRepairedOnce ==
    [][(e_pc = "loop" /\ calls' = calls + 1)
       => LET gave_up == Len(errors') = Len(errors) + 1
              cause == errors'[Len(errors')].cause
          IN  /\ (result' = "fixed"
                  \/ (gave_up /\ cause \in {"parse_error", "fix_error"}))
                 => repairs' = repairs + 1
              /\ (gave_up /\ cause = "fix_error")
                 => \/ e_pc' = "loop" /\ attempt' = attempt + 1
                    \/ e_pc' = "raised" /\ attempt = max_retries]_vars

\* C26: whenever the stored conversation has a spec_id, the specification
\* store holds a specification with that id, owned by the conversation's
\* owner, at version 1; the owner fetching it is neither told not-found nor
\* forbidden.
C26_SpecIdRefersToOwnedSpec ==
    (conv.exists /\ conv.spec_id # NoSpecId)
    => LET found == get_specification(conv.spec_id)
       IN  /\ found # {}
           /\ \A s \in found :
                /\ s.user_id = conv.user_id
                /\ s.version = 1
                /\ access_denied(TRUE, s.user_id, conv.user_id) = 0

\* The owner has fetched the specification the conversation refers to.
C26_Witness ==
    /\ conv.exists
    /\ conv.spec_id # NoSpecId
    /\ response \in {SpecificationResponse(s) : s \in specs}
    /\ response.spec_id = conv.spec_id

\* C27: every question an answer is recorded for has been carried to the
\* caller by an earlier response of the conversation.
C27_AnsweredQuestionWasPresented ==
    [][\A r \in Reqs :
         (pc[r] = "answer_question" /\ pc'[r] = "reread")
         => loc[r].open_questions[1] \in presented]_vars

\* C28: a message for a conversation stored as GENERATING is rejected and
\* changes nothing in the store; no handler starts assembly for it, so with
\* no operation under way the conversation stays GENERATING.
C28_GeneratingIsStuck ==
    [][/\ \A r \in Reqs, u \in Users :
            (SM_Get(r, u) /\ conv.exists /\ conv.stage = "generating")
            => /\ pc'[r] = "idle"
               /\ response'.status \in {403, 500}
               /\ conv' = conv /\ specs' = specs
       /\ (/\ conv.stage = "generating"
           /\ \A r \in Reqs : pc[r] = "idle"
           /\ bg_pc \in {"done", "failed"})
          => /\ conv' = conv /\ specs' = specs
             /\ \A r \in Reqs : pc'[r] = "idle"]_vars

\* The first request answered the last question and its assembly failed; every
\* request has since been received, the last one answered with an error, and
\* the conversation is still GENERATING with no specification stored.
C28_Witness ==
    /\ conv.stage = "generating"
    /\ conv.spec_id = NoSpecId
    /\ specs = {}
    /\ \A r \in Reqs : pc[r] = "idle"
    /\ bg_pc \in {"done", "failed"}
    /\ n_req = MaxMsgs
    /\ conv.answers # <<>>
    /\ conv.answers[1][2] = 1
    /\ response.status = 500

====
